---- MODULE Spec2Model ----
(***************************************************************************)
(* Length-delimited protobuf framing (zed-rpc/src/proto.rs): MessageStream *)
(* over the test transport ChunkedStream, the message-kind registrations,  *)
(* and the ui2 Button builder.                                             *)
(*                                                                         *)
(* A MessageStream owns a transport (byte_stream) and a scratch buffer.    *)
(* write_message and read_message are async functions: each is modelled as *)
(* a begin action (the synchronous code up to the first transport call)    *)
(* followed by one action per poll_write / poll_read call issued by        *)
(* futures_lite's write_all / read_exact loops.                            *)
(***************************************************************************)
EXTENDS Integers, Sequences, FiniteSets, TLC

(***************************************************************************)
(* Bounds of the model.                                                    *)
(***************************************************************************)
\* write_message calls made by the caller in one run
MaxWrites == 2
\* read_message calls made by the caller in one run
MaxReads == 3
\* futures the caller drops before they complete, in one run
MaxCancels == 1

\* transport calls that fail in one run
MaxFaults == 1

(***************************************************************************)
(* Machine integers.  A usize or u32 value can exceed the integers TLC     *)
(* computes with (31 bits), so a value that may be large is held exactly   *)
(* as two limbs: Size(g, b) is g * 2^30 + b with 0 <= b < 2^30.            *)
(***************************************************************************)
Limb == 2^30

Size(g, b) == [g |-> g, b |-> b]

\* the size n, for 0 <= n < 2^30
SizeOf(n) == Size(0, n)

IsSmall(x) == x.g = 0

\* the integer x, when IsSmall(x)
SizeInt(x) == x.b

SizeAdd(x, y) ==
  Size(x.g + y.g + ((x.b + y.b) \div Limb), (x.b + y.b) % Limb)

\* x - y, for y <= x
SizeSub(x, y) ==
  IF x.b >= y.b THEN Size(x.g - y.g, x.b - y.b)
                ELSE Size(x.g - y.g - 1, (x.b + Limb) - y.b)

SizeLe(x, y) == x.g < y.g \/ (x.g = y.g /\ x.b <= y.b)

\* min(x, n) for a size x and an integer n: an integer
SizeMin(x, n) == IF IsSmall(x) /\ x.b <= n THEN x.b ELSE n

\* u32::MAX = 2^32 - 1, the largest length try_into::<u32>() accepts
U32Max == Size(3, Limb - 1)

Min(a, b) == IF a <= b THEN a ELSE b

(***************************************************************************)
(* Byte vectors.  A Vec<u8> that may be too long to enumerate (a 4 GiB     *)
(* payload, a buffer resized to a garbage length) is held as an explicit   *)
(* prefix followed by a run of zero bytes: head \o <<0, ..., 0>> (zeros    *)
(* times, a Size).                                                         *)
(***************************************************************************)
Vec(head, zeros) == [head |-> head, zeros |-> zeros]

EmptyVec == Vec(<<>>, SizeOf(0))

\* Vec::len
VecLen(v) == SizeAdd(SizeOf(Len(v.head)), v.zeros)

Zeros(n) == [i \in 1..n |-> 0]

\* the bytes of v written out, when its run of zeros is small
VecBytes(v) == v.head \o Zeros(SizeInt(v.zeros))

RECURSIVE StripZeros(_)
StripZeros(s) ==
  IF s # <<>> /\ s[Len(s)] = 0 THEN StripZeros(SubSeq(s, 1, Len(s) - 1)) ELSE s

\* the byte string s as a Vec whose head does not end with a zero byte
VecOf(s) == Vec(StripZeros(s), SizeOf(Len(s) - Len(StripZeros(s))))

\* fault: a resize that extends but never truncates
VecResizeGrow(v, n) ==
  IF SizeLe(n, SizeOf(Len(v.head)))
    THEN v
    ELSE Vec(v.head, SizeSub(n, SizeOf(Len(v.head))))

\* Vec::resize(n, 0): truncate to n bytes, or extend with zero bytes
VecResize(v, n) ==
  IF SizeLe(n, SizeOf(Len(v.head)))
    THEN Vec(SubSeq(v.head, 1, SizeInt(n)), SizeOf(0))
    ELSE Vec(v.head, SizeSub(n, SizeOf(Len(v.head))))

\* v[pos .. pos + Len(s)].copy_from_slice(s), for pos + Len(s) <= VecLen(v)
VecPut(v, pos, s) ==
  IF s = <<>> THEN v
  ELSE LET end  == pos + Len(s)
           hlen == Len(v.head)
           pre  == IF pos <= hlen
                     THEN SubSeq(v.head, 1, pos)
                     ELSE v.head \o Zeros(pos - hlen)
           post == IF end < hlen THEN SubSeq(v.head, end + 1, hlen) ELSE <<>>
           head == pre \o s \o post
       IN  Vec(head, SizeSub(VecLen(v), SizeOf(Len(head))))

(***************************************************************************)
(* u32 <-> 4 big-endian bytes.                                             *)
(***************************************************************************)
\* fault: the length in little-endian byte order
to_le_bytes(n) ==
  << n.b % 256, (n.b \div 256) % 256, (n.b \div 65536) % 256,
     n.g * 64 + (n.b \div 16777216) >>

\* u32::to_be_bytes (proto.rs:116); 2^30 = 64 * 2^24
to_be_bytes(n) ==
  << n.g * 64 + (n.b \div 16777216),
     (n.b \div 65536) % 256, (n.b \div 256) % 256, n.b % 256 >>

\* u32::from_be_bytes (proto.rs:130)
from_be_bytes(b) ==
  Size(b[1] \div 64, (b[1] % 64) * 16777216 + b[2] * 65536 + b[3] * 256 + b[4])

(***************************************************************************)
(* The envelope FromClient and its payloads.  The schema (zed.messages.rs, *)
(* generated from the repository's .proto file) is not among the sources;  *)
(* the encoding below is the protobuf wire format of the fields the test   *)
(* uses: FromClient { id = 1; oneof variant { Auth = 2; UploadFile = 5 } },*)
(* Auth { user_id = 1; access_token = 2 }, UploadFile { content = 2 }.     *)
(* Fields holding their default value are not encoded.                     *)
(***************************************************************************)
NoVariant == [arm |-> "None"]

Auth(user_id, access_token) ==
  [arm |-> "Auth", user_id |-> user_id, access_token |-> access_token]

\* content is a byte vector (see Vec)
UploadFile(content) == [arm |-> "UploadFile", content |-> content]

FromClient(id, variant) == [id |-> id, variant |-> variant]

\* FromClient::default()
DefaultMessage == FromClient(0, NoVariant)

DefaultPayload(arm) ==
  IF arm = "Auth" THEN Auth(0, <<>>) ELSE UploadFile(EmptyVec)

ArmTag(arm) == IF arm = "Auth" THEN 2 ELSE 5

\* bytes of the varint encoding of an integer n >= 0
RECURSIVE VarintLenInt(_)
VarintLenInt(n) == IF n < 128 THEN 1 ELSE 1 + VarintLenInt(n \div 128)

\* the same for a size: four 7-bit groups are 2^28, and 2^30 = 4 * 2^28
VarintLen(x) ==
  IF IsSmall(x) THEN VarintLenInt(x.b)
  ELSE 4 + VarintLenInt(x.g * 4 + (x.b \div 268435456))

\* 1 key byte, the length as a varint, then the len bytes of the field
Delimited(len) == SizeAdd(SizeOf(1 + VarintLen(len)), len)

RECURSIVE EncodeVarint(_)
EncodeVarint(n) ==
  IF n < 128 THEN <<n>> ELSE <<128 + (n % 128)>> \o EncodeVarint(n \div 128)

\* key byte(s) of a field: (tag << 3) | wire_type
Key(tag, wire_type) == EncodeVarint(tag * 8 + wire_type)

\* encoded_len of a payload: a size
PayloadLen(p) ==
  IF p.arm = "Auth"
    THEN SizeAdd(
           SizeOf(IF p.user_id = 0 THEN 0 ELSE 1 + VarintLenInt(p.user_id)),
           IF p.access_token = <<>> THEN SizeOf(0)
           ELSE Delimited(SizeOf(Len(p.access_token))))
    ELSE IF VecLen(p.content) = SizeOf(0) THEN SizeOf(0)
         ELSE Delimited(VecLen(p.content))

\* write_message takes any `&impl Message` (proto.rs:110): a value of a
\* payload type (from_client::Auth, from_client::UploadFile) is a message of
\* its own, encoded without the envelope around it
IsPayload(m) == "arm" \in DOMAIN m

\* Message::encoded_len (proto.rs:112): a size
encoded_len(m) ==
  IF IsPayload(m) THEN PayloadLen(m)
  ELSE SizeAdd(SizeOf(IF m.id = 0 THEN 0 ELSE 1 + VarintLenInt(m.id)),
               IF m.variant = NoVariant THEN SizeOf(0)
               ELSE Delimited(PayloadLen(m.variant)))

EncodePayload(p) ==
  IF p.arm = "Auth"
    THEN (IF p.user_id = 0 THEN <<>> ELSE Key(1, 0) \o EncodeVarint(p.user_id))
      \o (IF p.access_token = <<>> THEN <<>>
          ELSE Key(2, 2) \o EncodeVarint(Len(p.access_token)) \o p.access_token)
    ELSE (IF VecLen(p.content) = SizeOf(0) THEN <<>>
          ELSE Key(2, 2) \o EncodeVarint(SizeInt(VecLen(p.content)))
               \o VecBytes(p.content))

\* Message::encode (proto.rs:117): the bytes appended to the buffer
Encode(m) ==
  IF IsPayload(m) THEN EncodePayload(m)
  ELSE (IF m.id = 0 THEN <<>> ELSE Key(1, 0) \o EncodeVarint(m.id))
    \o (IF m.variant = NoVariant THEN <<>>
        ELSE Key(ArmTag(m.variant.arm), 2)
             \o EncodeVarint(SizeInt(PayloadLen(m.variant)))
             \o EncodePayload(m.variant))

Bad == [ok |-> FALSE]

\* the varint starting at s[i]; shift counts the bytes already taken (the
\* int32 fields of the model's messages hold values below 2^31)
RECURSIVE ReadVarint(_, _, _)
ReadVarint(s, i, shift) ==
  IF i > Len(s) \/ shift >= 10 THEN Bad
  ELSE IF s[i] < 128 THEN [ok |-> TRUE, val |-> s[i], next |-> i + 1]
  ELSE LET r == ReadVarint(s, i + 1, shift + 1)
       IN  IF r.ok
             THEN [ok |-> TRUE, val |-> (s[i] - 128) + 128 * r.val, next |-> r.next]
             ELSE Bad

\* a decoded field key: tag and wire type, or Bad
ReadKey(s, i) ==
  LET k == ReadVarint(s, i, 0)
  IN  IF ~k.ok THEN Bad
      ELSE IF k.val % 8 > 5 \/ k.val \div 8 = 0 THEN Bad
      ELSE [ok |-> TRUE, tag |-> k.val \div 8, wt |-> k.val % 8, next |-> k.next]

\* the index after an unknown field of wire type wt whose value starts at
\* s[i] (0 when malformed); a group runs to its matching end-group key
RECURSIVE SkipField(_, _, _, _)
RECURSIVE SkipGroup(_, _, _)
SkipField(s, i, tag, wt) ==
  IF wt = 0 THEN LET v == ReadVarint(s, i, 0) IN IF v.ok THEN v.next ELSE 0
  ELSE IF wt = 1 THEN (IF i + 8 <= Len(s) + 1 THEN i + 8 ELSE 0)
  ELSE IF wt = 5 THEN (IF i + 4 <= Len(s) + 1 THEN i + 4 ELSE 0)
  ELSE IF wt = 2
    THEN LET l == ReadVarint(s, i, 0)
         IN  IF l.ok /\ l.next + l.val <= Len(s) + 1 THEN l.next + l.val ELSE 0
  ELSE IF wt = 3 THEN SkipGroup(s, i, tag)
  ELSE 0
SkipGroup(s, i, tag) ==
  LET k == ReadKey(s, i)
  IN  IF ~k.ok THEN 0
      ELSE IF k.wt = 4 THEN (IF k.tag = tag THEN k.next ELSE 0)
      ELSE LET n == SkipField(s, k.next, k.tag, k.wt)
           IN  IF n = 0 THEN 0 ELSE SkipGroup(s, n, tag)

\* Auth::merge: the fields of s0 from index i0 on, merged into p0 (the
\* merge operators take their arguments as values s, i, p, computed once)
RECURSIVE MergeAuth(_, _, _)
MergeAuth(s0, i0, p0) ==
  CHOOSE r \in {
      IF i > Len(s) THEN [ok |-> TRUE, msg |-> p]
      ELSE LET k == ReadKey(s, i)
           IN  IF ~k.ok THEN Bad
               ELSE IF k.tag = 1
                 THEN LET v == ReadVarint(s, k.next, 0)
                      IN  IF k.wt # 0 \/ ~v.ok THEN Bad
                          ELSE MergeAuth(s, v.next, [p EXCEPT !.user_id = v.val])
               ELSE IF k.tag = 2
                 THEN LET l == ReadVarint(s, k.next, 0)
                      IN  IF k.wt # 2 \/ ~l.ok THEN Bad
                          ELSE IF l.next + l.val > Len(s) + 1 THEN Bad
                          ELSE LET str == SubSeq(s, l.next, l.next + l.val - 1)
                               IN  \* a String must be UTF-8 (here: ASCII)
                                   IF \E j \in 1..Len(str) : str[j] >= 128 THEN Bad
                                   ELSE MergeAuth(s, l.next + l.val,
                                                  [p EXCEPT !.access_token = str])
               ELSE LET n == SkipField(s, k.next, k.tag, k.wt)
                    IN  IF n = 0 THEN Bad ELSE MergeAuth(s, n, p)
    : s \in {s0}, i \in {i0}, p \in {p0} } : TRUE

\* UploadFile::merge
RECURSIVE MergeUploadFile(_, _, _)
MergeUploadFile(s0, i0, p0) ==
  CHOOSE r \in {
      IF i > Len(s) THEN [ok |-> TRUE, msg |-> p]
      ELSE LET k == ReadKey(s, i)
           IN  IF ~k.ok THEN Bad
               ELSE IF k.tag = 2
                 THEN LET l == ReadVarint(s, k.next, 0)
                      IN  IF k.wt # 2 \/ ~l.ok THEN Bad
                          ELSE IF l.next + l.val > Len(s) + 1 THEN Bad
                          ELSE MergeUploadFile(s, l.next + l.val,
                                 [p EXCEPT !.content =
                                     VecOf(SubSeq(s, l.next, l.next + l.val - 1))])
               ELSE LET n == SkipField(s, k.next, k.tag, k.wt)
                    IN  IF n = 0 THEN Bad ELSE MergeUploadFile(s, n, p)
    : s \in {s0}, i \in {i0}, p \in {p0} } : TRUE

MergePayload(arm, s, p) ==
  IF arm = "Auth" THEN MergeAuth(s, 1, p) ELSE MergeUploadFile(s, 1, p)

\* FromClient::merge
RECURSIVE MergeFromClient(_, _, _)
MergeFromClient(s0, i0, m0) ==
  CHOOSE r \in {
      IF i > Len(s) THEN [ok |-> TRUE, msg |-> m]
      ELSE LET k == ReadKey(s, i)
           IN  IF ~k.ok THEN Bad
               ELSE IF k.tag = 1
                 THEN LET v == ReadVarint(s, k.next, 0)
                      IN  IF k.wt # 0 \/ ~v.ok THEN Bad
                          ELSE MergeFromClient(s, v.next, [m EXCEPT !.id = v.val])
               ELSE IF k.tag \in {2, 5}
                 THEN LET arm == IF k.tag = 2 THEN "Auth" ELSE "UploadFile"
                          l   == ReadVarint(s, k.next, 0)
                      IN  IF k.wt # 2 \/ ~l.ok THEN Bad
                          ELSE IF l.next + l.val > Len(s) + 1 THEN Bad
                          ELSE LET p == MergePayload(arm,
                                          SubSeq(s, l.next, l.next + l.val - 1),
                                          IF m.variant.arm = arm THEN m.variant
                                          ELSE DefaultPayload(arm))
                               IN  IF ~p.ok THEN Bad
                                   ELSE MergeFromClient(s, l.next + l.val,
                                                        [m EXCEPT !.variant = p.msg])
               ELSE LET n == SkipField(s, k.next, k.tag, k.wt)
                    IN  IF n = 0 THEN Bad ELSE MergeFromClient(s, n, m)
    : s \in {s0}, i \in {i0}, m \in {m0} } : TRUE

\* M::decode (proto.rs:133) for M = FromClient: [ok, msg] or Bad
Decode(s) == MergeFromClient(s, 1, DefaultMessage)

(***************************************************************************)
(* The messages the caller sends.  Oversize is an upload of 2^32 zero      *)
(* bytes: its encoding does not fit a u32 length.                          *)
(***************************************************************************)
\* message1 of the test with its access token shortened to "t"
AuthMessage == FromClient(3, Auth(5, <<116>>))

\* message2 of the test with its content shortened to "a"
UploadMessage == FromClient(4, UploadFile(Vec(<<97>>, SizeOf(0))))

IdMessage == FromClient(3, NoVariant)

Oversize == FromClient(4, UploadFile(Vec(<<>>, Size(4, 0))))

\* String::repeat
RECURSIVE Repeat(_, _)
Repeat(s, n) == IF n = 0 THEN << >> ELSE s \o Repeat(s, n - 1)

\* message1 of test_round_trip_message: the access token "the-access-token"
message1 ==
  FromClient(3, Auth(5, << 116, 104, 101, 45, 97, 99, 99, 101, 115, 115, 45,
                          116, 111, 107, 101, 110 >>))

\* message2 of test_round_trip_message: the content is "a ", 60 times
\* "very ", then "long error message that requires a two-byte length
\* delimiter": 362 bytes, whose length takes a two-byte varint
message2 ==
  FromClient(4, UploadFile(Vec(
    << 97, 32 >> \o Repeat(<< 118, 101, 114, 121, 32 >>, 60) \o
    << 108, 111, 110, 103, 32, 101, 114, 114, 111, 114, 32, 109, 101, 115,
       115, 97, 103, 101, 32, 116, 104, 97, 116, 32, 114, 101, 113, 117, 105,
       114, 101, 115, 32, 97, 32, 116, 119, 111, 45, 98, 121, 116, 101, 32,
       108, 101, 110, 103, 116, 104, 32, 100, 101, 108, 105, 109, 105, 116,
       101, 114 >>, SizeOf(0))))

\* messages short enough to stop a call at every byte of their frames
ShortMessages ==
  {DefaultMessage, IdMessage, AuthMessage, UploadMessage, Oversize}

Messages == ShortMessages \cup {message1, message2}

\* an upload whose encoding is exactly 2^32 - 1 bytes: 14 bytes of keys and
\* lengths around 2^32 - 15 bytes of content
LargestMessage == FromClient(4, UploadFile(Vec(<<>>, Size(3, Limb - 15))))

(***************************************************************************)
(* State.                                                                  *)
(***************************************************************************)
VARIABLES
  bytes,          \* ChunkedStream.bytes: every byte the transport accepted
  read_offset,    \* ChunkedStream.read_offset
  chunk_size,     \* ChunkedStream.chunk_size
  buffer,         \* MessageStream.buffer, the scratch buffer (a Vec)
  wpc,            \* the write_message future: "idle" or "write_all"
  wpos,           \* write_all: bytes of buffer the transport has accepted (0 when idle)
  wmsg,           \* write_message's argument
  wresult,        \* what the last write_message returned
  rpc,            \* the read_message future: "idle", "header" or "body"
  rpos,           \* read_exact: bytes of its target filled so far (0 when idle)
  delimiter_buf,  \* read_message's delimiter_buf
  rresult,        \* what the last read_message returned
  sent,           \* history: the messages of the write_message calls that returned Ok
  received,       \* history: the messages read_message returned
  wstart,         \* history: Len(bytes) when the last write_message began
  rstart,         \* history: read_offset when the last read_message began
  nwrites,        \* write_message calls so far
  nreads,         \* read_message calls so far
  calls,          \* history: the transport calls that moved at least one byte
                  \* for the operation begun last
  last_io,        \* history: what the last transport call of that operation
                  \* returned: Ok(n) or Err(e)
  ncancels,       \* futures dropped so far
  nfaults,        \* transport calls that have failed so far
  cancelled,      \* history: the operation last dropped, where its frame
                  \* starts in the byte stream and how much of it had moved
  payload,        \* classification: the payload last given to to_variant
  variant,        \* classification: the variant to_variant returned
  tried,          \* classification: from_variant's result, per type tried
  awaiting,       \* classification: the reply types the payload's type declares
  peer,           \* a second MessageStream over a transport of its own: the
                  \* values of the stream variables for it
  current,        \* which of the two streams the stream variables describe
  button,         \* the Button a chain of builder calls has built so far
  call,           \* history: the last builder call, [op, arg]
  ninner          \* history: uses the caller made of inner_mut()

vars == << bytes, read_offset, chunk_size, buffer, wpc, wpos, wmsg, wresult,
           rpc, rpos, delimiter_buf, rresult, sent, received, wstart, rstart,
           nwrites, nreads, calls, last_io, ncancels, nfaults, cancelled, payload, variant, tried,
           awaiting, peer, current, button, call, ninner >>

\* what no step of a write_message or read_message touches
others    == << peer, current, button, call, ninner >>
classify  == << payload, variant, tried, awaiting >>
stream    == << bytes, read_offset, chunk_size, buffer, wpc, wpos, wmsg,
                wresult, rpc, rpos, delimiter_buf, rresult, sent, received,
                wstart, rstart, nwrites, nreads, calls, last_io, ncancels,
                nfaults, cancelled >>
io_calls  == << calls, last_io >>
cancels   == << ncancels, cancelled, nfaults >>
transport == << bytes, read_offset, chunk_size >>
writer    == << wpc, wpos, wmsg, wresult, sent, wstart, nwrites >>
reader    == << rpc, rpos, delimiter_buf, rresult, received, rstart, nreads >>

\* a chunk size no transfer of the model reaches: the transport never splits
NoSplit == Limb - 1

\* chunk sizes of the transport: 3 is the test's; 0 accepts and delivers nothing
ChunkSizes == {0, 1, 3, NoSplit}

\* Option values of the classification functions
NoPayload == [none |-> TRUE]
Some(v)   == [some |-> v]
Absent    == [absent |-> TRUE]

NoResult == [kind |-> "None"]

\* no Button: no chain of builder calls has begun, or a panic has dropped
\* the one being built
NoButton == [dropped |-> TRUE]
NoCall   == [op |-> "none"]
Ok(v)    == [kind |-> "Ok", value |-> v]
Err(e)   == [kind |-> "Err", error |-> e]

\* the stream variables of MessageStream::new(ChunkedStream { bytes:
\* Vec::new(), read_offset: 0, chunk_size }), as a record
NewStream(chunk) ==
  [bytes |-> <<>>, read_offset |-> 0, chunk_size |-> chunk,
   buffer |-> EmptyVec,
   wpc |-> "idle", wpos |-> 0, wmsg |-> DefaultMessage, wresult |-> NoResult,
   rpc |-> "idle", rpos |-> 0, delimiter_buf |-> <<0, 0, 0, 0>>,
   rresult |-> NoResult, sent |-> <<>>, received |-> <<>>,
   wstart |-> 0, rstart |-> 0, nwrites |-> 0, nreads |-> 0, calls |-> 0,
   last_io |-> NoResult,
   ncancels |-> 0, nfaults |-> 0, cancelled |-> [op |-> "none"]]

\* the second stream's transport has the chunk size of the test
PeerChunkSize == 3

\* MessageStream::new over ChunkedStream { bytes: Vec::new(), read_offset: 0, .. }
Init ==
  /\ bytes = <<>>
  /\ read_offset = 0
  /\ chunk_size \in ChunkSizes
  /\ buffer = EmptyVec
  /\ wpc = "idle" /\ wpos = 0 /\ wmsg = DefaultMessage /\ wresult = NoResult
  /\ rpc = "idle" /\ rpos = 0 /\ delimiter_buf = <<0, 0, 0, 0>>
  /\ rresult = NoResult
  /\ sent = <<>> /\ received = <<>>
  /\ wstart = 0 /\ rstart = 0
  /\ nwrites = 0 /\ nreads = 0 /\ calls = 0 /\ ncancels = 0
  /\ nfaults = 0
  /\ last_io = NoResult
  /\ cancelled = [op |-> "none"]
  /\ payload = NoPayload /\ variant = NoPayload
  /\ tried = << >> /\ awaiting = {}
  /\ peer = NewStream(PeerChunkSize)
  /\ current = 1
  /\ button = NoButton
  /\ call = NoCall
  /\ ninner = 0

(***************************************************************************)
(* ChunkedStream, the transport.                                           *)
(***************************************************************************)
\* ChunkedStream::poll_write(buf): Ok(n), the bytes holding buf[0..n] too
poll_write(buf) ==
  LET bytes_written == Min(Len(buf), chunk_size)
  IN  [n |-> bytes_written, bytes |-> bytes \o SubSeq(buf, 1, bytes_written)]

\* fault: poll_read leaves read_offset where it was
poll_read_again(len) ==
  LET bytes_read == Min(SizeMin(len, chunk_size), Len(bytes) - read_offset)
      end_offset == read_offset + bytes_read
  IN  [n |-> bytes_read,
       data |-> SubSeq(bytes, read_offset + 1, end_offset),
       read_offset |-> read_offset]

\* ChunkedStream::poll_read(buf) for a buf of len bytes: Ok(n), the n bytes
\* copied to buf[0..n], and read_offset after the call
poll_read(len) ==
  LET bytes_read == Min(SizeMin(len, chunk_size), Len(bytes) - read_offset)
      end_offset == read_offset + bytes_read
  IN  [n |-> bytes_read,
       data |-> SubSeq(bytes, read_offset + 1, end_offset),
       read_offset |-> end_offset]

\* 1 for a transport call that moved n > 0 bytes, 0 for one that moved none
moved(n) == IF n > 0 THEN 1 ELSE 0

\* fault: a loop that stops one byte short of its slice
transfer_all_but_one(done, len) ==
  SizeOf(done) = len \/ SizeOf(done + 1) = len

\* fault: a single write / read call in place of write_all / read_exact
transfer_once(done, len) == TRUE

\* the loop of write_all / read_exact: the slice still to transfer is empty
\* once `done` of its `len` bytes are transferred
transfer_complete(done, len) == SizeOf(done) = len

\* fault: a write call that accepts nothing is made again
write_all_retries(n, done, len) ==
  IF transfer_complete(done, len) THEN "done" ELSE "more"

\* fault: a write call that accepts nothing ends write_all with Ok
write_all_lenient(n, done, len) ==
  IF n = 0 \/ transfer_complete(done, len) THEN "done" ELSE "more"

\* what write_all does after a poll_write that accepted n bytes, `done` of
\* the `len` bytes being accepted by now: fail with WriteZero, call
\* poll_write again, or return Ok(())
write_all_status(n, done, len) ==
  IF n = 0 THEN "zero"
  ELSE IF transfer_complete(done, len) THEN "done" ELSE "more"

\* fault: a read call that delivers nothing ends read_exact with Ok
read_exact_lenient(n, done, len) ==
  IF n = 0 \/ transfer_complete(done, len) THEN "done" ELSE "more"

\* fault: a loop that calls the transport before it looks at its slice
polls_first(len) == FALSE

\* the loop of read_exact runs while its slice is not empty: given an empty
\* slice it returns Ok(()) without a transport call
nothing_to_transfer(len) == len = SizeOf(0)

\* what read_exact does after a poll_read that delivered n bytes, `done` of
\* the `len` bytes being filled by now: fail with UnexpectedEof, call
\* poll_read again, or return Ok(())
read_exact_status(n, done, len) ==
  IF n = 0 THEN "eof"
  ELSE IF transfer_complete(done, len) THEN "done" ELSE "more"

(***************************************************************************)
(* write_message.                                                          *)
(***************************************************************************)
\* fault: encoded_len() as u32, which keeps the low 32 bits
message_len_cast(m) ==
  Ok(Size(encoded_len(m).g % 4, encoded_len(m).b))

\* let message_len: u32 = message.encoded_len().try_into(): the length, or
\* the error of a length above u32::MAX
message_len_of(m) ==
  IF SizeLe(encoded_len(m), U32Max) THEN Ok(encoded_len(m))
  ELSE Err("InvalidData")

\* fault: the frame appended to what the buffer held, without the clear
frame_buffer_kept(len, m) ==
  Vec(VecBytes(buffer) \o to_be_bytes(len) \o Encode(m), SizeOf(0))

\* proto.rs:115-117: the frame assembled in the scratch buffer
frame_buffer(len, m) == Vec(to_be_bytes(len) \o Encode(m), SizeOf(0))

\* a stream whose unfinished futures hold no borrow of it
never_borrowed == FALSE

\* write_message(&mut self) and read_message(&mut self): the future of an
\* unfinished call holds the stream's only mutable borrow (proto.rs:110, 127)
borrowed == wpc # "idle" \/ rpc # "idle"

\* write_message(m) up to its first transport call (proto.rs:111-117)
WriteMessage(m) ==
  /\ ~borrowed
  /\ nwrites < MaxWrites
  /\ nwrites' = nwrites + 1
  /\ calls' = 0
  /\ last_io' = NoResult
  /\ wmsg' = m
  /\ wstart' = Len(bytes)
  /\ LET len == message_len_of(m)
     IN  IF len.kind = "Err"
           THEN /\ wresult' = len
                /\ UNCHANGED << buffer, wpc, wpos >>
           ELSE /\ buffer' = frame_buffer(len.value, m)
                /\ wpc' = "write_all"
                /\ wpos' = 0
                /\ wresult' = NoResult
  /\ UNCHANGED << transport, reader, sent, cancels, classify, others >>

\* one poll_write call of write_all(&self.buffer) (proto.rs:118)
PollWrite ==
  /\ wpc = "write_all"
  /\ LET all == VecBytes(buffer)
         buf == SubSeq(all, wpos + 1, Len(all))
         io  == poll_write(buf)
         st  == write_all_status(io.n, wpos + io.n, VecLen(buffer))
     IN  /\ bytes' = io.bytes
         /\ calls' = calls + moved(io.n)
         /\ last_io' = Ok(io.n)
         /\ IF st = "zero"
              THEN /\ wresult' = Err("WriteZero")
                   /\ wpc' = "idle"
                   /\ wpos' = 0
                   /\ UNCHANGED sent
              ELSE IF st = "done"
                THEN /\ wresult' = Ok("unit")
                     /\ wpc' = "idle"
                     /\ wpos' = 0
                     /\ sent' = Append(sent, wmsg)
                ELSE /\ wpos' = wpos + io.n
                     /\ UNCHANGED << wpc, wresult, sent >>
  /\ UNCHANGED << read_offset, chunk_size, buffer, wmsg, wstart, nwrites,
                  reader, cancels, classify, others >>

\* the write_message future is dropped while its transport call is pending
CancelWrite ==
  /\ wpc = "write_all"
  /\ ncancels < MaxCancels
  /\ ncancels' = ncancels + 1
  /\ UNCHANGED nfaults
  /\ cancelled' = [op |-> "write", start |-> wstart, k |-> wpos]
  /\ wpc' = "idle"
  /\ wpos' = 0
  /\ wresult' = [kind |-> "Cancelled"]
  /\ UNCHANGED << transport, buffer, wmsg, sent, wstart, nwrites, reader,
                  io_calls, classify, others >>

(***************************************************************************)
(* read_message.                                                           *)
(***************************************************************************)
\* fault: a body that does not decode gives the default message
decode_or_default(buf) ==
  LET d == Decode(VecBytes(buf))
  IN  IF d.ok THEN Ok(d.msg) ELSE Ok(DefaultMessage)

\* Ok(M::decode(self.buffer.as_slice())?)  (proto.rs:133)
decode_result(buf) ==
  LET d == Decode(VecBytes(buf))
  IN  IF d.ok THEN Ok(d.msg) ELSE Err("InvalidData")

\* read_message::<FromClient>() up to its first transport call (proto.rs:128)
ReadMessage ==
  /\ ~borrowed
  /\ nreads < MaxReads
  /\ nreads' = nreads + 1
  /\ calls' = 0
  /\ last_io' = NoResult
  /\ rstart' = read_offset
  /\ delimiter_buf' = <<0, 0, 0, 0>>
  /\ rpc' = "header"
  /\ rpos' = 0
  /\ rresult' = NoResult
  /\ UNCHANGED << transport, buffer, writer, received, cancels, classify, others >>

\* read_message returns r
ReadReturns(r) ==
  /\ rresult' = r
  /\ rpc' = "idle"
  /\ rpos' = 0
  /\ received' = IF r.kind = "Ok" THEN Append(received, r.value) ELSE received

\* one poll_read call of read_exact(&mut delimiter_buf) (proto.rs:129); the
\* call that fills the delimiter goes on to proto.rs:130-131 and, for an
\* empty body, through the read_exact of no bytes to proto.rs:133
PollReadHeader ==
  /\ rpc = "header"
  /\ LET io  == poll_read(SizeOf(4 - rpos))
         st  == read_exact_status(io.n, rpos + io.n, SizeOf(4))
         got == [i \in 1..4 |->
                   IF rpos < i /\ i <= rpos + io.n THEN io.data[i - rpos]
                                                   ELSE delimiter_buf[i]]
         message_len == from_be_bytes(got)
         resized     == VecResize(buffer, message_len)
     IN  /\ read_offset' = io.read_offset
         /\ calls' = calls + moved(io.n)
         /\ last_io' = Ok(io.n)
         /\ delimiter_buf' = got
         /\ IF st = "eof"
              THEN /\ ReadReturns(Err("UnexpectedEof"))
                   /\ UNCHANGED buffer
              ELSE IF st = "more"
                THEN /\ rpos' = rpos + io.n
                     /\ UNCHANGED << rpc, rresult, received, buffer >>
              ELSE /\ buffer' = resized
                   /\ IF nothing_to_transfer(message_len)
                        THEN ReadReturns(decode_result(resized))
                        ELSE /\ rpc' = "body"
                             /\ rpos' = 0
                             /\ UNCHANGED << rresult, received >>
  /\ UNCHANGED << bytes, chunk_size, writer, rstart, nreads, cancels,
                  classify, others >>

\* one poll_read call of read_exact(&mut self.buffer) (proto.rs:132); the
\* call that fills the buffer goes on to proto.rs:133
PollReadBody ==
  /\ rpc = "body"
  /\ LET io     == poll_read(SizeSub(VecLen(buffer), SizeOf(rpos)))
         st     == read_exact_status(io.n, rpos + io.n, VecLen(buffer))
         filled == VecPut(buffer, rpos, io.data)
     IN  /\ read_offset' = io.read_offset
         /\ calls' = calls + moved(io.n)
         /\ last_io' = Ok(io.n)
         /\ buffer' = filled
         /\ IF st = "eof"
              THEN ReadReturns(Err("UnexpectedEof"))
              ELSE IF st = "more"
                THEN /\ rpos' = rpos + io.n
                     /\ UNCHANGED << rpc, rresult, received >>
                ELSE ReadReturns(decode_result(filled))
  /\ UNCHANGED << bytes, chunk_size, delimiter_buf, writer, rstart, nreads,
                  cancels, classify, others >>

\* a drop that gave the bytes it had consumed back to the transport
CancelReadRewinds ==
  /\ rpc # "idle"
  /\ ncancels < MaxCancels
  /\ ncancels' = ncancels + 1
  /\ UNCHANGED nfaults
  /\ cancelled' = [op |-> "read", start |-> rstart,
                   k |-> read_offset - rstart]
  /\ rpc' = "idle"
  /\ rpos' = 0
  /\ rresult' = [kind |-> "Cancelled"]
  /\ read_offset' = rstart
  /\ UNCHANGED << bytes, chunk_size, buffer, delimiter_buf, received, rstart,
                  nreads, writer, io_calls, classify, others >>

\* the read_message future is dropped while its transport call is pending
CancelRead ==
  /\ rpc # "idle"
  /\ ncancels < MaxCancels
  /\ ncancels' = ncancels + 1
  /\ UNCHANGED nfaults
  /\ cancelled' = [op |-> "read", start |-> rstart,
                   k |-> read_offset - rstart]
  /\ rpc' = "idle"
  /\ rpos' = 0
  /\ rresult' = [kind |-> "Cancelled"]
  /\ UNCHANGED << transport, buffer, delimiter_buf, received, rstart, nreads,
                  writer, io_calls, classify, others >>

Next ==
  \/ \E m \in Messages : WriteMessage(m)
  \/ PollWrite
  \/ ReadMessage
  \/ PollReadHeader
  \/ PollReadBody

Spec == Init /\ [][Next]_vars

(***************************************************************************)
(* inner_mut (proto.rs:100-102) lends the caller the transport.  It takes  *)
(* &mut self, so it cannot be called while a write_message or read_message *)
(* future is unfinished; between calls the caller can do to the transport  *)
(* whatever ChunkedStream allows: set its fields, write to it, read from   *)
(* it.                                                                     *)
(***************************************************************************)
MaxInner == 2

\* what the caller writes to the transport directly
InnerWrites == { << 0, 0, 0, 0 >>, << 8 >> }

\* how many bytes the caller asks of the transport directly
InnerReads == { 1, 4 }

\* stream.inner_mut(): allowed when no future borrows the stream
inner_mut ==
  /\ ~borrowed
  /\ ninner < MaxInner
  /\ ninner' = ninner + 1
  /\ UNCHANGED << buffer, writer, reader, io_calls, cancels, classify,
                  peer, current, button, call >>

\* stream.inner_mut().chunk_size = c
InnerSetChunkSize(c) ==
  /\ inner_mut
  /\ chunk_size' = c
  /\ UNCHANGED << bytes, read_offset >>

\* Pin::new(stream.inner_mut()).poll_write(cx, buf)
InnerPollWrite(buf) ==
  /\ inner_mut
  /\ bytes' = poll_write(buf).bytes
  /\ UNCHANGED << read_offset, chunk_size >>

\* Pin::new(stream.inner_mut()).poll_read(cx, &mut [0; len])
InnerPollRead(len) ==
  /\ inner_mut
  /\ read_offset' = poll_read(SizeOf(len)).read_offset
  /\ UNCHANGED << bytes, chunk_size >>

NextInner ==
  \/ \E m \in ShortMessages : WriteMessage(m)
  \/ PollWrite
  \/ ReadMessage
  \/ PollReadHeader
  \/ PollReadBody
  \/ \E c \in ChunkSizes : InnerSetChunkSize(c)
  \/ \E buf \in InnerWrites : InnerPollWrite(buf)
  \/ \E len \in InnerReads : InnerPollRead(len)

SpecInner == Init /\ [][NextInner]_vars

(***************************************************************************)
(* A writer that also sends messages of another type than the reader asks  *)
(* for: write_message accepts any `&impl Message`, read_message decodes    *)
(* what it finds as the type named at the call, here FromClient            *)
(* (proto.rs:176).                                                         *)
(***************************************************************************)
\* from_client::Auth and from_client::UploadFile written without an envelope:
\* bodies 08 05 12 01 74 and 12 01 61, neither of which is a FromClient
BareAuth == Auth(5, <<116>>)

BareUpload == UploadFile(Vec(<<97>>, SizeOf(0)))

MixedMessages == { BareAuth, BareUpload, IdMessage, AuthMessage }

NextMixed ==
  \/ \E m \in MixedMessages : WriteMessage(m)
  \/ PollWrite
  \/ ReadMessage
  \/ PollReadHeader
  \/ PollReadBody

SpecMixed == Init /\ [][NextMixed]_vars

\* the same caller, who may also drop a future before it has completed
NextCancel ==
  \/ \E m \in ShortMessages : WriteMessage(m)
  \/ PollWrite
  \/ ReadMessage
  \/ PollReadHeader
  \/ PollReadBody
  \/ CancelWrite
  \/ CancelRead

SpecCancel == Init /\ [][NextCancel]_vars

(***************************************************************************)
(* A transport whose calls can fail.  MessageStream takes any AsyncWrite / *)
(* AsyncRead; write_all and read_exact end with the error of the call that *)
(* failed (proto.rs:118, 129, 132).                                        *)
(***************************************************************************)
\* errors a transport call returns
TransportErrors == { "BrokenPipe", "ConnectionReset" }

\* fault: every failed call reported as the end of the stream
surface_as_eof(e) == Err("UnexpectedEof")

\* the result of an operation whose transport call returned Err(e): the
\* `?` of proto.rs:129 and 132, the tail expression of proto.rs:118
surface(e) == Err(e)

\* poll_write returns Err(e) to write_all (proto.rs:118)
PollWriteFails(e) ==
  /\ wpc = "write_all"
  /\ nfaults < MaxFaults
  /\ nfaults' = nfaults + 1
  /\ last_io' = Err(e)
  /\ wresult' = surface(e)
  /\ wpc' = "idle"
  /\ wpos' = 0
  /\ UNCHANGED << transport, buffer, wmsg, sent, wstart, nwrites, reader,
                  calls, ncancels, cancelled, classify, others >>

\* poll_read returns Err(e) to read_exact (proto.rs:129, 132)
PollReadFails(e) ==
  /\ rpc # "idle"
  /\ nfaults < MaxFaults
  /\ nfaults' = nfaults + 1
  /\ last_io' = Err(e)
  /\ ReadReturns(surface(e))
  /\ UNCHANGED << transport, buffer, delimiter_buf, rstart, nreads, writer,
                  calls, ncancels, cancelled, classify, others >>

NextFaulty ==
  \/ \E m \in ShortMessages : WriteMessage(m)
  \/ PollWrite
  \/ \E e \in TransportErrors : PollWriteFails(e)
  \/ ReadMessage
  \/ PollReadHeader
  \/ PollReadBody
  \/ \E e \in TransportErrors : PollReadFails(e)

SpecFaulty == Init /\ [][NextFaulty]_vars

\* a transport call of the outstanding write_message returns
WriteCallReturns == PollWrite \/ \E e \in TransportErrors : PollWriteFails(e)

\* a transport call of the outstanding read_message returns
ReadCallReturns ==
  PollReadHeader \/ PollReadBody \/ \E e \in TransportErrors : PollReadFails(e)

\* write_message and read_message calls of a run in which every transport
\* call returns
MaxFairCalls == 3

\* the messages of such a run: a body of two bytes and an empty one
FairMessages == { IdMessage, DefaultMessage }

FairBudget == nwrites + nreads < MaxFairCalls

NextFair ==
  \/ \E m \in FairMessages : FairBudget /\ WriteMessage(m)
  \/ PollWrite
  \/ \E e \in TransportErrors : PollWriteFails(e)
  \/ FairBudget /\ ReadMessage
  \/ PollReadHeader
  \/ PollReadBody
  \/ \E e \in TransportErrors : PollReadFails(e)

\* every transport call returns in the end
SpecFair ==
  Init /\ [][NextFair]_vars /\ WF_vars(WriteCallReturns)
       /\ WF_vars(ReadCallReturns)

(***************************************************************************)
(* Two MessageStream instances, each over a transport of its own.  The     *)
(* stream variables describe the stream whose step runs; Switch hands the  *)
(* turn to the other one.                                                  *)
(***************************************************************************)
\* write_message and read_message calls of both streams together
MaxPairCalls == 3

\* the messages the two streams carry
PairMessages == { AuthMessage, IdMessage }

\* the stream variables, as a record
this ==
  [bytes |-> bytes, read_offset |-> read_offset, chunk_size |-> chunk_size,
   buffer |-> buffer,
   wpc |-> wpc, wpos |-> wpos, wmsg |-> wmsg, wresult |-> wresult,
   rpc |-> rpc, rpos |-> rpos, delimiter_buf |-> delimiter_buf,
   rresult |-> rresult, sent |-> sent, received |-> received,
   wstart |-> wstart, rstart |-> rstart, nwrites |-> nwrites,
   nreads |-> nreads, calls |-> calls, last_io |-> last_io,
   ncancels |-> ncancels, nfaults |-> nfaults,
   cancelled |-> cancelled]

\* the stream variables become those of s
Resume(s) ==
  /\ bytes' = s.bytes /\ read_offset' = s.read_offset
  /\ chunk_size' = s.chunk_size
  /\ wpc' = s.wpc /\ wpos' = s.wpos /\ wmsg' = s.wmsg /\ wresult' = s.wresult
  /\ rpc' = s.rpc /\ rpos' = s.rpos /\ delimiter_buf' = s.delimiter_buf
  /\ rresult' = s.rresult /\ sent' = s.sent /\ received' = s.received
  /\ wstart' = s.wstart /\ rstart' = s.rstart
  /\ nwrites' = s.nwrites /\ nreads' = s.nreads /\ calls' = s.calls
  /\ last_io' = s.last_io
  /\ ncancels' = s.ncancels /\ cancelled' = s.cancelled
  /\ nfaults' = s.nfaults

\* two streams that use one scratch buffer between them
SwitchSharedBuffer ==
  /\ peer' = this
  /\ Resume(peer)
  /\ buffer' = buffer
  /\ current' = 3 - current
  /\ UNCHANGED << classify, button, call, ninner >>

\* the task of the other stream runs next; each MessageStream keeps its own
\* byte_stream and buffer (proto.rs:87-98)
Switch ==
  /\ peer' = this
  /\ Resume(peer)
  /\ buffer' = peer.buffer
  /\ current' = 3 - current
  /\ UNCHANGED << classify, button, call, ninner >>

PairBudget == nwrites + nreads + peer.nwrites + peer.nreads < MaxPairCalls

NextPair ==
  \/ \E m \in PairMessages : PairBudget /\ WriteMessage(m)
  \/ PollWrite
  \/ PairBudget /\ ReadMessage
  \/ PollReadHeader
  \/ PollReadBody
  \/ Switch

SpecPair == Init /\ [][NextPair]_vars

(***************************************************************************)
(* Message kinds (proto.rs:8-84).  Each macro call of proto.rs:80-84 is a  *)
(* registration; expanding it gives the trait implementations it writes.   *)
(***************************************************************************)
\* distinct values of one payload type are 0 .. MaxPayload
MaxPayload == 2

\* a registration list with a reply type pasted from the line above
RegistrationsPasted ==
  << [macro |-> "request_message",   args |-> << "Auth", "AuthResponse" >>],
     [macro |-> "request_message",   args |-> << "NewWorktree", "NewWorktreeResponse" >>],
     [macro |-> "request_message",   args |-> << "ShareWorktree", "NewWorktreeResponse" >>],
     [macro |-> "send_message",      args |-> << "UploadFile" >>],
     [macro |-> "subscribe_message", args |-> << "SubscribeToPathRequests", "PathRequest" >>] >>

\* proto.rs:80-84, in order
Registrations ==
  << [macro |-> "request_message",   args |-> << "Auth", "AuthResponse" >>],
     [macro |-> "request_message",   args |-> << "NewWorktree", "NewWorktreeResponse" >>],
     [macro |-> "request_message",   args |-> << "ShareWorktree", "ShareWorktreeResponse" >>],
     [macro |-> "send_message",      args |-> << "UploadFile" >>],
     [macro |-> "subscribe_message", args |-> << "SubscribeToPathRequests", "PathRequest" >>] >>

\* a payload type: its module and its name
Type(module, name) == [module |-> module, name |-> name]

\* directed_message!(name, direction_trait, direction_module): one impl
directed_message(name, direction_trait, direction_module) ==
  [trait |-> direction_trait, for |-> Type(direction_module, name),
   assoc |-> {}]

\* the impls a registration expands to (proto.rs:53-78)
Expand(r) ==
  IF r.macro = "request_message"
    THEN << directed_message(r.args[1], "ClientMessage", "from_client"),
            directed_message(r.args[2], "ServerMessage", "from_server"),
            [trait |-> "RequestMessage", for |-> Type("from_client", r.args[1]),
             assoc |-> {Type("from_server", r.args[2])}] >>
  ELSE IF r.macro = "send_message"
    THEN << directed_message(r.args[1], "ClientMessage", "from_client"),
            [trait |-> "SendMessage", for |-> Type("from_client", r.args[1]),
             assoc |-> {}] >>
  ELSE << directed_message(r.args[1], "ClientMessage", "from_client"),
          directed_message(r.args[2], "ServerMessage", "from_server"),
          [trait |-> "SubscribeMessage", for |-> Type("from_client", r.args[1]),
           assoc |-> {Type("from_server", r.args[2])}] >>

RECURSIVE ExpandAll(_)
ExpandAll(rs) == IF rs = <<>> THEN <<>> ELSE Expand(rs[1]) \o ExpandAll(Tail(rs))

\* every impl of the five traits, in source order
Impls == ExpandAll(Registrations)

\* the types implementing ClientMessage or ServerMessage
DirectedTypes ==
  { Impls[i].for : i \in { j \in 1..Len(Impls) :
                             Impls[j].trait \in {"ClientMessage", "ServerMessage"} } }

\* type Response / type Event of the impls of t
ReplyTypes(t) ==
  UNION { Impls[i].assoc : i \in { j \in 1..Len(Impls) : Impls[j].for = t } }

\* a value of payload type t
Payload(t, v) == [type |-> t, value |-> v]

\* fn to_variant(self): $direction_module::Variant::$name(self)
to_variant(p) == [module |-> p.type.module, arm |-> p.type.name, msg |-> p]

\* an extraction that does not look at the arm
from_variant_any(t, v) == Some(v.msg)

\* fn from_variant(variant) of the impl for type t
from_variant(t, v) == IF v.arm = t.name THEN Some(v.msg) ELSE Absent

\* a.to_variant()
ToVariant(t, v) ==
  /\ payload' = Payload(t, v)
  /\ variant' = to_variant(Payload(t, v))
  /\ tried' = << >>
  /\ awaiting' = ReplyTypes(t)
  /\ UNCHANGED << stream, others >>

\* T::from_variant(variant), for a type t of the variant's direction
FromVariant(t) ==
  /\ variant # NoPayload
  /\ t.module = variant.module
  /\ \A i \in 1..Len(tried) : tried[i].type # t
  /\ tried' = Append(tried, [type |-> t, result |-> from_variant(t, variant)])
  /\ UNCHANGED << payload, variant, awaiting, stream, others >>

NextClassify ==
  \/ \E t \in DirectedTypes : \E v \in 0..MaxPayload : ToVariant(t, v)
  \/ \E t \in DirectedTypes : FromVariant(t)

SpecClassify == Init /\ [][NextClassify]_vars

(***************************************************************************)
(* Button and its builder calls (ui2/src/elements/button.rs).  Every       *)
(* builder call takes the Button by value and returns it; a call that      *)
(* panics returns nothing and the Button it was given is dropped.          *)
(***************************************************************************)
Labels == { "Save", "Cancel" }

\* enum ButtonVariant, #[default] Ghost
ButtonVariants == { "Ghost", "Filled" }

\* enum IconPosition
IconPositions == { "Left", "Right" }

\* InteractionState, named in button.rs by its variants only; the enum and
\* its default are defined in the crate's prelude
InteractionStates == { "Enabled", "Hovered", "Active", "Focused", "Disabled" }

DefaultInteractionState == "Enabled"

\* two values of crate::Icon
Icons == { "icon_a", "icon_b" }

\* Option<DefiniteLength>
Widths == { Absent, Some("full") }

\* Button::new(label)
Button_new(label) ==
  [label |-> label, variant |-> "Ghost", state |-> DefaultInteractionState,
   icon |-> Absent, icon_position |-> Absent, width |-> Absent]

\* Button::variant(self, variant)
Button_variant(self, v) == [self EXCEPT !.variant = v]

\* Button::ghost(label)
Button_ghost(label) == Button_variant(Button_new(label), "Ghost")

\* Button::state(self, state)
Button_state(self, st) == [self EXCEPT !.state = st]

\* Button::icon(self, icon)
Button_icon(self, i) == [self EXCEPT !.icon = Some(i)]

\* fault: the position stored without looking at the icon
icon_position_unchecked(self, p) == [self EXCEPT !.icon_position = Some(p)]

\* Button::icon_position(self, icon_position): the Button, or NoButton when
\* the call panics
Button_icon_position(self, p) ==
  IF self.icon = Absent THEN NoButton
  ELSE [self EXCEPT !.icon_position = Some(p)]

\* Button::width(self, width)
Button_width(self, w) == [self EXCEPT !.width = w]

\* a builder call op(arg) whose value is b
Returns(op, arg, b) ==
  /\ button' = b
  /\ call' = [op |-> op, arg |-> arg]
  /\ UNCHANGED << stream, classify, peer, current, ninner >>

CallNew(label) == Returns("new", label, Button_new(label))

CallGhost(label) == Returns("ghost", label, Button_ghost(label))

CallVariant(v) ==
  button # NoButton /\ Returns("variant", v, Button_variant(button, v))

CallState(st) ==
  button # NoButton /\ Returns("state", st, Button_state(button, st))

CallIcon(i) ==
  button # NoButton /\ Returns("icon", i, Button_icon(button, i))

CallIconPosition(p) ==
  button # NoButton
    /\ Returns("icon_position", p, Button_icon_position(button, p))

CallWidth(w) ==
  button # NoButton /\ Returns("width", w, Button_width(button, w))

NextButton ==
  \/ \E label \in Labels : CallNew(label)
  \/ \E label \in Labels : CallGhost(label)
  \/ \E v \in ButtonVariants : CallVariant(v)
  \/ \E st \in InteractionStates : CallState(st)
  \/ \E i \in Icons : CallIcon(i)
  \/ \E p \in IconPositions : CallIconPosition(p)
  \/ \E w \in Widths : CallWidth(w)

SpecButton == Init /\ [][NextButton]_vars


(***************************************************************************)
(* The frames of a sequence of messages as they must appear on the wire.   *)
(***************************************************************************)
\* the value of four bytes read as a big-endian number (below 2^30 here)
BigEndian(b) == ((b[1] * 256 + b[2]) * 256 + b[3]) * 256 + b[4]

\* s is a frame carrying m: four bytes of length, then exactly m's encoding
IsFrameOf(s, m) ==
  /\ Len(s) = 4 + Len(Encode(m))
  /\ BigEndian(SubSeq(s, 1, 4)) = Len(Encode(m))
  /\ SubSeq(s, 5, Len(s)) = Encode(m)

\* s is exactly the frames of the messages ms, one after another
RECURSIVE IsFramesOf(_, _)
IsFramesOf(s, ms) ==
  IF ms = <<>> THEN s = <<>>
  ELSE LET n == 4 + Len(Encode(ms[1]))
       IN  /\ Len(s) >= n
           /\ IsFrameOf(SubSeq(s, 1, n), ms[1])
           /\ IsFramesOf(SubSeq(s, n + 1, Len(s)), Tail(ms))

(***************************************************************************)
(* C1  Round trip under any chunking: a read_message that begins when a    *)
(* written frame is waiting returns exactly the message of that frame,     *)
(* whatever the chunk size; one that begins with no frame waiting fails    *)
(* with UnexpectedEof.                                                     *)
(***************************************************************************)
RoundTrip ==
  [][ (rpc # "idle" /\ rpc' = "idle") =>
        IF Len(received) < Len(sent)
          THEN rresult' = Ok(sent[Len(received) + 1])
          ELSE rresult' = Err("UnexpectedEof") ]_vars

\* the end of test_round_trip_message: message1 and message2, frames of 28
\* and 374 bytes, written and read back in 3-byte chunks
RoundTripWitness ==
  /\ chunk_size = 3
  /\ sent = << message1, message2 >>
  /\ received = << message1, message2 >>
  /\ Len(bytes) = 402 /\ read_offset = 402

(***************************************************************************)
(* C2  Order preservation: the messages read so far are the first messages *)
(* written, in the order written: none reordered, merged, repeated or      *)
(* skipped.                                                                *)
(***************************************************************************)
OrderPreserved ==
  /\ Len(received) <= Len(sent)
  /\ \A i \in 1..Len(received) : received[i] = sent[i]

\* two different messages were written and both read back in 3-byte chunks
OrderWitness ==
  /\ Len(received) = 2
  /\ received[1] # received[2]
  /\ chunk_size = 3

(***************************************************************************)
(* C3  Wire format: once a write_message has returned Ok the transport     *)
(* holds exactly the frames of the messages written, in call order, each   *)
(* 4 big-endian length bytes and then the body; while a write is under way *)
(* it holds those frames and the first wpos bytes of the next.             *)
(***************************************************************************)
WireFormat ==
  /\ wpc = "idle" => IsFramesOf(bytes, sent)
  /\ wpc = "write_all" =>
       /\ wstart + wpos = Len(bytes)
       /\ IsFramesOf(SubSeq(bytes, 1, wstart), sent)
       /\ wpos <= 4 + Len(Encode(wmsg))
       /\ \E f \in {SubSeq(bytes, wstart + 1, Len(bytes)) \o
                      SubSeq(VecBytes(buffer), wpos + 1, SizeInt(VecLen(buffer)))} :
             IsFrameOf(f, wmsg)

\* an empty message and a message of 9 bytes are on the wire
WireFormatWitness ==
  /\ wpc = "idle"
  /\ sent = << DefaultMessage, AuthMessage >>
  /\ Len(bytes) = 17

(***************************************************************************)
(* C4  Oversize rejection: a write_message whose message encodes to 2^32   *)
(* bytes or more returns an error at once, with the transport's bytes and  *)
(* the scratch buffer as they were; any shorter message is accepted and    *)
(* its transfer begins.  The size check accepts the encoded length         *)
(* 2^32 - 1 itself.                                                        *)
(***************************************************************************)
\* the encoded length is 2^32 or more (4 limbs of 2^30)
TooLong(m) == encoded_len(m).g >= 4

OversizeRejected ==
  [][ /\ nwrites' # nwrites =>
           IF TooLong(wmsg')
             THEN /\ wresult' = Err("InvalidData")
                  /\ wpc' = "idle"
                  /\ bytes' = bytes
                  /\ buffer' = buffer
             ELSE /\ wresult' = NoResult
                  /\ wpc' = "write_all"
      /\ encoded_len(LargestMessage) = Size(3, Limb - 1)
      /\ message_len_of(LargestMessage).kind = "Ok" ]_vars

\* the oversize message was refused after an earlier frame had gone out
OversizeWitness ==
  /\ wmsg = Oversize
  /\ wresult = Err("InvalidData")
  /\ sent = << AuthMessage >>
  /\ Len(bytes) = 13
  /\ VecLen(buffer) = SizeOf(13)

(***************************************************************************)
(* C5  Truncation detection: a read_message that finds fewer than 4 + N    *)
(* bytes left on the transport (none at all, part of the header, or the    *)
(* header and part of the N body bytes it declares) consumes what is there *)
(* and fails with UnexpectedEof, returning no message; a read_message that *)
(* returns a message has consumed the 4 header bytes and all N body bytes. *)
(* Checked with writes that were dropped part-way, which leave a truncated *)
(* frame at the end of the transport.                                      *)
(***************************************************************************)
\* the bytes left from offset `from` on hold less than one whole frame
Truncated(from) ==
  \/ Len(bytes) - from < 4
  \/ Len(bytes) - from < 4 + BigEndian(SubSeq(bytes, from + 1, from + 4))

TruncationDetected ==
  [][ (rpc # "idle" /\ rpc' = "idle" /\ rresult'.kind # "Cancelled") =>
        IF Truncated(rstart)
          THEN /\ rresult' = Err("UnexpectedEof")
               /\ received' = received
               /\ read_offset' = Len(bytes)
          ELSE /\ rresult' # Err("UnexpectedEof")
               /\ read_offset' =
                    rstart + 4 + BigEndian(SubSeq(bytes, rstart + 1, rstart + 4)) ]_vars

\* a read failed at the end of the stream inside a body: the header was
\* whole and declared more bytes than followed
TruncationWitness ==
  /\ rpc = "idle"
  /\ rresult = Err("UnexpectedEof")
  /\ read_offset = Len(bytes)
  /\ read_offset - rstart > 4
  /\ BigEndian(SubSeq(bytes, rstart + 1, rstart + 4)) = 9

(***************************************************************************)
(* C9  Zero-length transfer is closure (as amended): a poll_write that     *)
(* accepts no byte ends write_message with a WriteZero error, and a        *)
(* poll_read that delivers no byte ends read_message with UnexpectedEof;   *)
(* neither goes on calling the transport nor reports success.              *)
(***************************************************************************)
ZeroTransferFails ==
  [][ /\ (wpc = "write_all" /\ bytes' = bytes) =>
           (wpc' = "idle" /\ wresult' = Err("WriteZero") /\ sent' = sent)
      /\ (rpc # "idle" /\ read_offset' = read_offset) =>
           (rpc' = "idle" /\ rresult' = Err("UnexpectedEof")
            /\ received' = received) ]_vars

\* over a transport of chunk size 0 a write failed, then a read failed
ZeroTransferWitness ==
  /\ chunk_size = 0
  /\ wpc = "idle" /\ wresult = Err("WriteZero")
  /\ rpc = "idle" /\ rresult = Err("UnexpectedEof")

\* C9 as stated: both operations fail with UnexpectedEof
ZeroTransferIsEof ==
  [][ /\ (wpc = "write_all" /\ bytes' = bytes) =>
           (wpc' = "idle" /\ wresult' = Err("UnexpectedEof"))
      /\ (rpc # "idle" /\ read_offset' = read_offset) =>
           (rpc' = "idle" /\ rresult' = Err("UnexpectedEof")) ]_vars


(***************************************************************************)
(* C6  Classification correctness: a payload wrapped by to_variant is      *)
(* extracted again, unchanged, by from_variant of its own type, and        *)
(* from_variant of every other type of the same direction yields None; so  *)
(* at most one registered type extracts from a given variant.  The         *)
(* registered types are the five client and four server types.             *)
(***************************************************************************)
NamesOf(module) == { t.name : t \in { u \in DirectedTypes : u.module = module } }

ClassificationCorrect ==
  /\ NamesOf("from_client") = { "Auth", "NewWorktree", "ShareWorktree",
                                "UploadFile", "SubscribeToPathRequests" }
  /\ NamesOf("from_server") = { "AuthResponse", "NewWorktreeResponse",
                                "ShareWorktreeResponse", "PathRequest" }
  /\ variant # NoPayload =>
       /\ from_variant(payload.type, variant) = Some(payload)
       /\ \A a, b \in DirectedTypes :
            ( /\ a.module = variant.module /\ b.module = variant.module
              /\ from_variant(a, variant) # Absent
              /\ from_variant(b, variant) # Absent ) => a = b
  /\ \A i \in 1..Len(tried) :
       tried[i].result = IF tried[i].type = payload.type
                           THEN Some(payload) ELSE Absent

ClassificationWitness ==
  /\ payload = Payload(Type("from_server", "PathRequest"), 1)
  /\ \E i, j \in 1..Len(tried) :
       /\ tried[i].result = Some(payload)
       /\ tried[j].type = Type("from_server", "AuthResponse")
       /\ tried[j].result = Absent

(***************************************************************************)
(* C7  Closed role table: every registered type has exactly one direction  *)
(* and exactly one role; a Request type has exactly one Response type and  *)
(* a Subscribe type exactly one Event type, each a registered server type; *)
(* no type is registered twice; and the reply types a sender may await are *)
(* always the ones the table gives for its payload's type.                 *)
(***************************************************************************)
ImplsOf(t, traits) ==
  { j \in 1..Len(Impls) : Impls[j].for = t /\ Impls[j].trait \in traits }

\* the impls naming t as their Response or Event
RepliesTo(t, traits) ==
  { j \in 1..Len(Impls) : t \in Impls[j].assoc /\ Impls[j].trait \in traits }

ClientRoles == { "RequestMessage", "SendMessage", "SubscribeMessage" }

RoleTableClosed ==
  /\ \A t \in DirectedTypes :
       /\ Cardinality(ImplsOf(t, {"ClientMessage", "ServerMessage"})) = 1
       /\ \A j \in ImplsOf(t, {"ClientMessage"}) : t.module = "from_client"
       /\ \A j \in ImplsOf(t, {"ServerMessage"}) : t.module = "from_server"
       /\ t.module = "from_client" =>
            /\ Cardinality(ImplsOf(t, ClientRoles)) = 1
            /\ RepliesTo(t, ClientRoles) = {}
            /\ \A j \in ImplsOf(t, {"RequestMessage", "SubscribeMessage"}) :
                 /\ Cardinality(Impls[j].assoc) = 1
                 /\ \A r \in Impls[j].assoc :
                      r \in DirectedTypes /\ r.module = "from_server"
            /\ \A j \in ImplsOf(t, {"SendMessage"}) : Impls[j].assoc = {}
       /\ t.module = "from_server" =>
            /\ ImplsOf(t, ClientRoles) = {}
            /\ Cardinality(RepliesTo(t, ClientRoles)) = 1
  /\ \A j \in 1..Len(Impls) : Impls[j].for \in DirectedTypes
  /\ payload # NoPayload =>
       /\ awaiting = ReplyTypes(payload.type)
       /\ Cardinality(awaiting) =
            IF ImplsOf(payload.type, {"RequestMessage", "SubscribeMessage"}) # {}
              THEN 1 ELSE 0

RoleTableWitness ==
  /\ payload # NoPayload
  /\ payload.type = Type("from_client", "SubscribeToPathRequests")
  /\ awaiting = { Type("from_server", "PathRequest") }
  /\ Len(tried) > 0


(***************************************************************************)
(* C8  One writer and one reader on the same stream object.  Both          *)
(* operations borrow the stream mutably, so at most one of them is         *)
(* outstanding at a time; while a write is outstanding the scratch buffer  *)
(* is the frame of its message, and while a read is in its body the        *)
(* scratch buffer has the length its header announced.                     *)
(***************************************************************************)
OneOperationAtATime ==
  /\ ~(wpc # "idle" /\ rpc # "idle")
  /\ wpc = "write_all" =>
       /\ message_len_of(wmsg).kind = "Ok"
       /\ buffer = frame_buffer(message_len_of(wmsg).value, wmsg)
  /\ rpc = "body" => VecLen(buffer) = from_be_bytes(delimiter_buf)

\* a write is part-way through its frame after a read has returned a message
OneOperationWitness ==
  /\ wpc = "write_all" /\ wpos > 0 /\ wpos < 4
  /\ received # << >>
  /\ nreads < MaxReads

\* C8 as stated: a read_message can start while a write_message is
\* outstanding, and a write_message while a read_message is
ConcurrentReadWrite ==
  /\ (wpc = "write_all" /\ nreads < MaxReads) => ENABLED ReadMessage
  /\ (rpc # "idle" /\ nwrites < MaxWrites) =>
       ENABLED (\E m \in Messages : WriteMessage(m))


(***************************************************************************)
(* C10  Cancellation desynchronizes.  After a read_message dropped with k  *)
(* bytes of a frame consumed, or a write_message dropped with k bytes of   *)
(* its frame accepted (0 < k < 4 + N), the next operation starts a frame   *)
(* of its own: the next read takes its header at the old frame's start     *)
(* plus k, the next write puts a whole new frame right after the k bytes   *)
(* of the old one.  The read that meets those bytes returns what the bytes *)
(* at its own start say: the header there, then that many bytes, decoded.  *)
(***************************************************************************)
\* what a read_message returns that starts at offset from of the byte stream
ReadAt(from) ==
  IF Truncated(from)
    THEN Err("UnexpectedEof")
    ELSE decode_result(VecOf(SubSeq(bytes, from + 5,
           from + 4 + BigEndian(SubSeq(bytes, from + 1, from + 4)))))

\* the first read_message after a dropped one starts k bytes into the frame
ReadRestartsInsideFrame ==
  ( /\ nreads' = nreads + 1
    /\ rresult.kind = "Cancelled"
    /\ cancelled.op = "read" /\ cancelled.k > 0 ) =>
      /\ rstart' = cancelled.start + cancelled.k
      /\ rpc' = "header" /\ rpos' = 0 /\ delimiter_buf' = <<0, 0, 0, 0>>
      /\ read_offset' = read_offset
      /\ ~Truncated(cancelled.start) =>
           rstart' < cancelled.start + 4
                       + BigEndian(SubSeq(bytes, cancelled.start + 1,
                                          cancelled.start + 4))

\* the first accepted write_message after a dropped one starts a whole frame
\* behind the k bytes the dropped one left
WriteAppendsAfterPartial ==
  ( /\ nwrites' = nwrites + 1
    /\ wresult.kind = "Cancelled"
    /\ cancelled.op = "write" /\ cancelled.k > 0
    /\ wpc' = "write_all" ) =>
      /\ cancelled.k < 4 + Len(Encode(wmsg))
      /\ SubSeq(bytes, cancelled.start + 1, Len(bytes)) =
           SubSeq(to_be_bytes(encoded_len(wmsg)) \o Encode(wmsg), 1, cancelled.k)
      /\ wstart' = cancelled.start + cancelled.k
      /\ bytes' = bytes /\ wpos' = 0
      /\ buffer' = frame_buffer(encoded_len(wmsg'), wmsg')

\* once started, that write puts the frame of its message behind the k bytes
WriteCompletesAfterPartial ==
  ( /\ wpc = "write_all" /\ wpc' = "idle" /\ wresult' = Ok("unit")
    /\ cancelled.op = "write" /\ cancelled.k > 0
    /\ wstart = cancelled.start + cancelled.k ) =>
      IsFrameOf(SubSeq(bytes', wstart + 1, Len(bytes')), wmsg)

\* a read returns that started k bytes into a frame, or at k bytes that a
\* dropped write left and a later write has followed
AffectedReadReturns ==
  /\ rpc # "idle" /\ rpc' = "idle" /\ rresult'.kind # "Cancelled"
  /\ cancelled.op # "none" /\ cancelled.k > 0
  /\ \/ cancelled.op = "read" /\ rstart = cancelled.start + cancelled.k
     \/ /\ cancelled.op = "write" /\ rstart = cancelled.start
        /\ wstart >= cancelled.start + cancelled.k

CancellationDesynchronizes ==
  [][ /\ ReadRestartsInsideFrame
      /\ WriteAppendsAfterPartial
      /\ WriteCompletesAfterPartial
      /\ AffectedReadReturns => rresult' = ReadAt(rstart) ]_vars

\* a write was dropped after one byte of its frame and the next write
\* completed; the read that met those bytes returned no message
CancellationWitness ==
  /\ cancelled.op = "write" /\ cancelled.k = 1
  /\ wstart = cancelled.start + 1 /\ wresult = Ok("unit")
  /\ rstart = cancelled.start /\ rpc = "idle"
  /\ rresult.kind = "Err"
  /\ sent # << >> /\ received = << >>

\* C10 as stated: after the next operation, the read that meets the
\* interrupted frame never returns a message that was written
DesynchronizedReadsNeverMatch ==
  [][ /\ ReadRestartsInsideFrame
      /\ WriteAppendsAfterPartial
      /\ WriteCompletesAfterPartial
      /\ AffectedReadReturns =>
           ~( /\ rresult'.kind = "Ok"
              /\ \E i \in 1..Len(sent) : rresult'.value = sent[i] ) ]_vars


(***************************************************************************)
(* C11  Stream instances are independent.  With the steps of two streams   *)
(* interleaved in any way, a step of one leaves every variable of the      *)
(* other as it was, and each stream keeps to what it does alone: its       *)
(* transport holds the frames of its own completed writes, then as much of *)
(* the frame being written as it has accepted; its scratch buffer is the   *)
(* frame being written, or has the length the header being read declared;  *)
(* and the messages it has read are the first of the ones it has written.  *)
(***************************************************************************)
\* what a stream does alone, stated of the stream variables in record s
StreamLaws(s) ==
  LET frame  == to_be_bytes(encoded_len(s.wmsg)) \o Encode(s.wmsg)
      whole  == Len(s.bytes) - s.wpos
  IN  /\ s.read_offset <= Len(s.bytes)
      /\ Len(s.received) <= Len(s.sent)
      /\ \A i \in 1..Len(s.received) : s.received[i] = s.sent[i]
      /\ whole >= 0
      /\ IsFramesOf(SubSeq(s.bytes, 1, whole), s.sent)
      /\ s.wpc = "idle" => s.wpos = 0
      /\ s.wpc = "write_all" =>
           /\ VecBytes(s.buffer) = frame
           /\ SubSeq(s.bytes, whole + 1, Len(s.bytes)) = SubSeq(frame, 1, s.wpos)
      /\ s.rpc = "body" => VecLen(s.buffer) = from_be_bytes(s.delimiter_buf)
      /\ s.rresult.kind = "Ok" =>
           s.rresult.value = s.received[Len(s.received)]

StreamsIndependent ==
  [][ /\ current' = current => peer' = peer
      /\ current' # current => (peer' = this /\ this' = peer)
      /\ StreamLaws(this)
      /\ StreamLaws(peer) ]_vars

\* the second stream is part-way through reading a body while the first is
\* part-way through writing a frame
StreamsWitness ==
  /\ current = 2
  /\ rpc = "body" /\ rpos > 0 /\ sent = << AuthMessage >>
  /\ peer.wpc = "write_all" /\ peer.wpos > 0 /\ peer.wmsg = IdMessage


(***************************************************************************)
(* C12  Completion implies full transfer.  write_message returns Ok only   *)
(* in a step after which the transport holds all 4 + N bytes of the frame, *)
(* read_message returns Ok only in a step after which 4 + N bytes have     *)
(* been delivered to it, and no result is Ok while an operation is still   *)
(* part-way through its frame.                                             *)
(***************************************************************************)
FullTransfer ==
  [][ /\ (wpc = "write_all" /\ wresult' = Ok("unit")) =>
           /\ wpc' = "idle"
           /\ Len(bytes') - wstart = 4 + Len(Encode(wmsg))
           /\ SubSeq(bytes', wstart + 1, Len(bytes')) = VecBytes(buffer)
      /\ (rpc # "idle" /\ rresult'.kind = "Ok") =>
           /\ rpc' = "idle"
           /\ read_offset' - rstart = 4 + BigEndian(delimiter_buf')
           /\ SubSeq(bytes, rstart + 1, rstart + 4) = delimiter_buf'
           /\ SubSeq(bytes, rstart + 5, read_offset') = VecBytes(buffer')
      /\ wpc' = "write_all" => wresult'.kind # "Ok"
      /\ rpc' # "idle" => rresult'.kind # "Ok" ]_vars

\* a 13-byte frame went out and came back one byte per I/O call
FullTransferWitness ==
  /\ chunk_size = 1
  /\ wresult = Ok("unit") /\ sent = << AuthMessage >>
  /\ rresult = Ok(AuthMessage) /\ read_offset = Len(bytes)
  /\ wpc = "idle" /\ rpc = "idle"


(***************************************************************************)
(* C13  Termination over short I/O.  When every transport call returns,    *)
(* having moved some bytes, none, or failed, every write_message and every *)
(* read_message finishes; the calls that moved bytes for it are no more    *)
(* than the bytes it moved, and those are no more than the 4 + N bytes of   *)
(* its frame.                                                              *)
(***************************************************************************)
Terminates ==
  /\ [][ /\ wpc = "write_all" =>
              /\ calls' <= Len(bytes') - wstart
              /\ Len(bytes') - wstart <= 4 + Len(Encode(wmsg))
         /\ rpc # "idle" =>
              /\ calls' <= read_offset' - rstart
              /\ rpc = "header" => read_offset' - rstart <= 4
              /\ rpc = "body" =>
                   read_offset' - rstart <= 4 + BigEndian(delimiter_buf) ]_vars
  /\ (wpc = "write_all") ~> (wpc = "idle")
  /\ (rpc # "idle") ~> (rpc = "idle")

\* a 6-byte frame written in 6 calls of one byte each
TerminatesWitness ==
  /\ chunk_size = 1 /\ wmsg = IdMessage
  /\ wpc = "idle" /\ wresult = Ok("unit")
  /\ calls = 6 /\ Len(bytes) - wstart = 6


(***************************************************************************)
(* C14  Transport errors are surfaced without retry.  When a transport     *)
(* call of a write_message or read_message returns an error, that step     *)
(* ends the operation with the same error, moves no byte and returns no    *)
(* message; nothing is done on the transport after it until the caller     *)
(* starts a new operation.                                                 *)
(***************************************************************************)
ErrorsSurfaced ==
  [][ /\ (nfaults' > nfaults /\ wpc = "write_all") =>
           /\ last_io'.kind = "Err" /\ last_io'.error \in TransportErrors
           /\ wresult' = last_io'
           /\ wpc' = "idle"
           /\ sent' = sent /\ bytes' = bytes
      /\ (nfaults' > nfaults /\ rpc # "idle") =>
           /\ last_io'.kind = "Err" /\ last_io'.error \in TransportErrors
           /\ rresult' = last_io'
           /\ rpc' = "idle"
           /\ received' = received /\ read_offset' = read_offset
      /\ last_io.kind = "Err" =>
           /\ wpc = "idle" /\ rpc = "idle"
           /\ nwrites' + nreads' = nwrites + nreads + 1
           /\ bytes' = bytes /\ read_offset' = read_offset ]_vars

\* a read_message whose transport failed part-way through the body
ErrorsWitness ==
  /\ rresult = Err("ConnectionReset") /\ last_io = Err("ConnectionReset")
  /\ rpc = "idle" /\ read_offset - rstart > 4
  /\ received = << >> /\ sent # << >>


(***************************************************************************)
(* C15  One frame per read.  A read_message that returns Ok has consumed   *)
(* exactly the 4 + N bytes of one frame, N being the length its header     *)
(* declared, and leaves the read position at the end of the frame of the   *)
(* message it returned, before the first byte of the next frame.  When     *)
(* every call runs to its end over a transport that does not fail, a read  *)
(* that returns an error found the end of the stream before the first      *)
(* header byte and consumed nothing, so the read position is at a frame    *)
(* boundary whenever no read is in progress.                               *)
(***************************************************************************)
RECURSIVE FramesLen(_)
FramesLen(ms) ==
  IF ms = << >> THEN 0 ELSE 4 + Len(Encode(ms[1])) + FramesLen(Tail(ms))

OneFramePerRead ==
  [][ /\ (rpc # "idle" /\ rpc' = "idle" /\ rresult'.kind = "Ok") =>
           /\ read_offset' - rstart = 4 + BigEndian(delimiter_buf')
           /\ Len(received') <= Len(sent)
           /\ rstart = FramesLen(SubSeq(sent, 1, Len(received)))
           /\ read_offset' = FramesLen(SubSeq(sent, 1, Len(received')))
      /\ (rpc # "idle" /\ rpc' = "idle" /\ rresult'.kind # "Ok") =>
           read_offset' = rstart
      /\ rpc' = "idle" =>
           \E k \in 0..Len(sent') :
              read_offset' = FramesLen(SubSeq(sent', 1, k)) ]_vars

\* the first of two waiting frames was read in 3-byte chunks and the read
\* position stands between the two
OneFrameWitness ==
  /\ chunk_size = 3
  /\ sent = << IdMessage, AuthMessage >> /\ received = << IdMessage >>
  /\ rpc = "idle" /\ rresult = Ok(IdMessage)
  /\ read_offset = 6 /\ Len(bytes) = 19


(***************************************************************************)
(* C16  Malformed body.  A read_message that begins at a frame whose body  *)
(* does not deserialize as FromClient receives all N body bytes, returns   *)
(* Err(InvalidData) and no message, and has consumed exactly the 4 + N     *)
(* bytes of that frame; the read_message after it begins at the header of  *)
(* the next frame and returns the message of that frame.                   *)
(***************************************************************************)
Malformed(m) == ~Decode(Encode(m)).ok

MalformedBody ==
  [][ (rpc # "idle" /\ rpc' = "idle") =>
        \A k \in 0..(Len(sent) - 1) :
           rstart = FramesLen(SubSeq(sent, 1, k)) =>
             LET m == sent[k + 1]
             IN  /\ read_offset' = rstart + 4 + Len(Encode(m))
                 /\ VecBytes(buffer') = Encode(m)
                 /\ IF Malformed(m)
                      THEN /\ rresult' = Err("InvalidData")
                           /\ received' = received
                      ELSE /\ rresult' = Ok(m)
                           /\ received' = Append(received, m) ]_vars

\* the first read met a from_client::Auth of 5 bytes and failed, the second
\* returned the message written after it
MalformedWitness ==
  /\ chunk_size = 3
  /\ sent = << BareAuth, IdMessage >>
  /\ nreads = 2 /\ received = << IdMessage >> /\ rresult = Ok(IdMessage)
  /\ rpc = "idle" /\ read_offset = 15


(***************************************************************************)
(* C17  Scratch-buffer reuse never leaks bytes.  On a stream used for      *)
(* writes and reads in any order, the buffer given to write_all is the     *)
(* 4-byte header and the encoding of the message being written and nothing *)
(* else, every transport call of the write appends the next bytes of that  *)
(* frame only, and the slice given to the decoder by a read is the N body  *)
(* bytes of the frame it read and nothing else, whatever an earlier,       *)
(* longer frame or an earlier write left in the buffer.                    *)
(***************************************************************************)
FrameOf(m) == to_be_bytes(encoded_len(m)) \o Encode(m)

NoLeftovers ==
  [][ /\ wpc = "write_all" =>
           /\ VecBytes(buffer) = FrameOf(wmsg)
           /\ SubSeq(bytes', 1, Len(bytes)) = bytes
           /\ SubSeq(bytes', Len(bytes) + 1, Len(bytes'))
                = SubSeq(FrameOf(wmsg), wpos + 1,
                         wpos + Len(bytes') - Len(bytes))
      /\ (rpc # "idle" /\ rpc' = "idle" /\ rresult' # Err("UnexpectedEof")) =>
           LET N    == BigEndian(delimiter_buf')
               body == SubSeq(bytes, rstart + 5, rstart + 4 + N)
               d    == Decode(body)
           IN  /\ delimiter_buf' = SubSeq(bytes, rstart + 1, rstart + 4)
               /\ VecLen(buffer') = SizeOf(N)
               /\ VecBytes(buffer') = body
               /\ rresult' = IF d.ok THEN Ok(d.msg) ELSE Err("InvalidData") ]_vars

\* a 13-byte frame and a 6-byte frame were written and read back in that
\* order: the buffer held 13, 6, 9 and then 2 bytes
NoLeftoversWitness ==
  /\ sent = << AuthMessage, IdMessage >>
  /\ received = << AuthMessage, IdMessage >>
  /\ VecBytes(buffer) = << 8, 3 >>
  /\ rpc = "idle" /\ wpc = "idle"


(***************************************************************************)
(* C18  Empty body.  A message whose encoded length is 0 is written as the *)
(* four bytes 00 00 00 00 and nothing more, and a read_message whose       *)
(* header declares length 0 returns Ok with the default message in the     *)
(* step that delivers the fourth header byte, having read 4 bytes, whether *)
(* or not any byte follows the header in the transport.                    *)
(***************************************************************************)
EmptyBody ==
  [][ /\ (wpc = "write_all" /\ encoded_len(wmsg) = SizeOf(0)) =>
           /\ VecBytes(buffer) = << 0, 0, 0, 0 >>
           /\ wresult' = Ok("unit") =>
                SubSeq(bytes', wstart + 1, Len(bytes')) = << 0, 0, 0, 0 >>
      /\ ( /\ rpc = "header"
           /\ read_offset' > read_offset /\ read_offset' = rstart + 4
           /\ delimiter_buf' = << 0, 0, 0, 0 >> ) =>
           /\ rpc' = "idle"
           /\ rresult' = Ok(DefaultMessage)
           /\ received' = Append(received, DefaultMessage)
           /\ buffer' = EmptyVec ]_vars

\* the empty message was written after a longer one and read back with the
\* transport at its end right after the four header bytes
EmptyBodyWitness ==
  /\ sent = << IdMessage, DefaultMessage >>
  /\ bytes = << 0, 0, 0, 2, 8, 3, 0, 0, 0, 0 >>
  /\ received = << IdMessage, DefaultMessage >>
  /\ rresult = Ok(DefaultMessage) /\ rpc = "idle"
  /\ rstart = 6 /\ read_offset = 10


(***************************************************************************)
(* C19  Button builder invariant.  After any sequence of builder calls     *)
(* that has not panicked, the Button's icon_position is set only if its    *)
(* icon is set; icon_position called on a Button with no icon panics and   *)
(* returns no Button, so the position is stored nowhere; and no builder    *)
(* call given a Button with an icon returns one without it.                *)
(***************************************************************************)
ButtonBuilder ==
  [][ /\ button' # NoButton =>
           (button'.icon_position # Absent => button'.icon # Absent)
      /\ ( /\ call' # call /\ call'.op = "icon_position"
           /\ button # NoButton /\ button.icon = Absent ) =>
           button' = NoButton
      /\ ( /\ button # NoButton /\ button.icon # Absent
           /\ call'.op \notin { "new", "ghost" } ) =>
           /\ button' # NoButton
           /\ button'.icon = button.icon \/ call'.op = "icon" ]_vars

\* new("Save").icon(icon_a).icon_position(Right) followed by three calls
\* that leave icon and position alone
ButtonWitness ==
  /\ button # NoButton
  /\ button.icon = Some("icon_a") /\ button.icon_position = Some("Right")
  /\ button.variant = "Filled" /\ button.state = "Disabled"
  /\ call = [op |-> "width", arg |-> Some("full")]

====
